---- MODULE Spec2Model ----
(***************************************************************************)
(* XToggle: one run of xtoggle.py (and of its predecessor,                 *)
(* nvidia_toggle.py) as a state machine.  A run builds the monitor         *)
(* registry from `xrandr -q`, the xorg.conf metamodes option and           *)
(* monitors.xml, applies one action to the is_enabled flags, recalculates  *)
(* the x positions of the enabled monitors, chooses the primary and        *)
(* synthesizes the command of the chosen manager.                          *)
(*                                                                         *)
(* External inputs (the lines of `xrandr -q`, the metamodes entries, the   *)
(* logicalmonitor tags, the parsed arguments, the exit status of the       *)
(* executed command) are drawn where the script reads them.                *)
(***************************************************************************)
EXTENDS Integers, Sequences, FiniteSets, TLC

\* ------------------------------------------------------------------ bounds

\* Number of output names the display query can report as connected.
MaxMonitors == 2
\* Lines of `xrandr -q` after the leading "Screen" line.
MaxLines == 3
\* Entries of the metamodes option of xorg.conf.
MaxEntries == 2
\* logicalmonitor tags of monitors.xml.
MaxTags == 2
\* Monitors of a registry the operations are applied to repeatedly (SpecOps).
OpsMonitors == 3
\* Operations applied in a row to one registry (SpecOps).
MaxOps == 2

AllNames == <<"A", "B", "C", "D", "E">>
Names == {AllNames[i] : i \in 1..MaxMonitors}

NameIndex(n) == CHOOSE i \in 1..Len(AllNames) : AllNames[i] = n

\* What monitors.xml can hold: the mode of an output (width, height, rate in
\* mHz; the first, third, ... output is the wider one) and its position.
ModeOf(n) ==
    IF NameIndex(n) % 2 = 1
    THEN [width |-> 1920, height |-> 1080, rate |-> 60000]
    ELSE [width |-> 1280, height |-> 1024, rate |-> 59951]
Positions == { [x |-> 0, y |-> 0], [x |-> 1920, y |-> 56] }

\* What one entry of the metamodes option can be: a mode with its offsets,
\* or a mode alone (the offsets are optional in a metamode).
MetaShapes == {"offset", "plain"}

\* ------------------------------------------------------------------ values

\* Python's None, for a numeric attribute and for a reference to a monitor.
NoneInt == -1
NoneName == "None"
\* Monitor.metamodes is a string; a string is held as the list of its
\* '+'-separated fields (str.split('+') and '+'.join are inverse bijections
\* between strings and non-empty lists of '+'-free strings), so None is <<>>.
NoneStr == <<>>

XTOGGLE == "xtoggle.py"
NVIDIA_TOGGLE == "nvidia_toggle.py"
XRANDR == "xrandr"
NVIDIA == "nvidia"

Range(s) == {s[i] : i \in DOMAIN s}

\* Monitor(): every attribute None; the xrandr loop sets name and is_enabled.
Monitor(name, is_enabled) ==
    [name |-> name, xpos |-> NoneInt, ypos |-> NoneInt, rank |-> NoneInt,
     width |-> NoneInt, height |-> NoneInt, rate |-> NoneInt,
     is_enabled |-> is_enabled, metamodes |-> NoneStr]

\* ------------------------------------------------------------------ pure functions
\* A monitor list is a sequence of names `ml` over the objects `ms`
\* (name -> attributes): lists hold references, so a write through one list
\* is seen through every other.

\* get_enabled / filter_out_disabled: the enabled monitors, in list order.
get_enabled(ml, ms) == SelectSeq(ml, LAMBDA n : ms[n].is_enabled)

RECURSIVE Pack(_, _, _)
Pack(enabled, ms, total_width) ==
    IF enabled = <<>> THEN ms
    ELSE LET n == Head(enabled)
         IN  Pack(Tail(enabled), [ms EXCEPT ![n].xpos = total_width],
                  total_width + ms[n].width)

\* A layout that forgets to advance the running total.
recalculate_positions_stuck(ml, ms) ==
    [n \in DOMAIN ms |->
        IF ms[n].is_enabled /\ n \in Range(ml) THEN [ms[n] EXCEPT !.xpos = 0] ELSE ms[n]]

\* A layout that also assigns positions to disabled monitors.
recalculate_positions_all(ml, ms) == Pack(ml, ms, 0)

recalculate_positions(ml, ms) == Pack(get_enabled(ml, ms), ms, 0)

\* only_target that flips the target instead of enabling it.
only_target_flip(ml, ms, target) ==
    [n \in DOMAIN ms |->
        IF n = target THEN [ms[n] EXCEPT !.is_enabled = ~ms[n].is_enabled]
        ELSE IF n \in Range(ml) THEN [ms[n] EXCEPT !.is_enabled = FALSE]
        ELSE ms[n]]

only_target(ml, ms, target) ==
    LET off == [n \in DOMAIN ms |->
                  IF n \in Range(ml) THEN [ms[n] EXCEPT !.is_enabled = FALSE]
                  ELSE ms[n]]
    IN  [off EXCEPT ![target].is_enabled = TRUE]

enable_all(ml, ms) ==
    [n \in DOMAIN ms |->
        IF n \in Range(ml) THEN [ms[n] EXCEPT !.is_enabled = TRUE] ELSE ms[n]]

\* A restore condition that does not ask whether the target is the one on.
toggle_only_restores_any(ml, ms, target) == Len(get_enabled(ml, ms)) = 1

\* The condition of xtoggle.py's toggle-only branch: restore all monitors.
toggle_only_restores(ml, ms, target) ==
    ms[target].is_enabled /\ Len(get_enabled(ml, ms)) = 1

\* The condition of nvidia_toggle.py's toggle-only branch: only the target.
toggle_only_isolates(ml, ms, target) ==
    ~ms[target].is_enabled \/ Len(get_enabled(ml, ms)) > 1

\* A chain of branches whose toggle switches the target on, never off.
apply_action_toggle_on(scr, action, ml, ms, target) ==
    CASE action \in {"toggle", "enable"} -> [ms EXCEPT ![target].is_enabled = TRUE]
      [] action = "disable" -> [ms EXCEPT ![target].is_enabled = FALSE]
      [] action = "enable-all" -> enable_all(ml, ms)
      [] action = "toggle-only" ->
            IF toggle_only_restores(ml, ms, target)
            THEN enable_all(ml, ms)
            ELSE only_target(ml, ms, target)
      [] action = "enable-only" -> only_target(ml, ms, target)
      [] OTHER -> ms

\* Lines 345-359 of xtoggle.py / 286-301 of nvidia_toggle.py: the chain of
\* branches on the action, as a function of the objects.
apply_action(scr, action, ml, ms, target) ==
    CASE action = "toggle" -> [ms EXCEPT ![target].is_enabled = ~ms[target].is_enabled]
      [] action = "enable" -> [ms EXCEPT ![target].is_enabled = TRUE]
      [] action = "disable" -> [ms EXCEPT ![target].is_enabled = FALSE]
      [] action = "enable-all" -> enable_all(ml, ms)
      [] action = "toggle-only" ->
            IF scr = XTOGGLE
            THEN IF toggle_only_restores(ml, ms, target)
                 THEN enable_all(ml, ms)
                 ELSE only_target(ml, ms, target)
            ELSE IF toggle_only_isolates(ml, ms, target)
                 THEN only_target(ml, ms, target)
                 ELSE enable_all(ml, ms)
      [] action = "enable-only" -> only_target(ml, ms, target)
      [] OTHER -> ms

\* get_new_primary that keeps the stored primary even when it is disabled.
get_new_primary_stale(ml, ms, original) ==
    IF original # NoneName THEN original
    ELSE IF get_enabled(ml, ms) = <<>> THEN "IndexError"
    ELSE get_enabled(ml, ms)[1]

\* get_new_primary (and the head of nvidia_toggle.py's create_xrandr_command):
\* a monitor name, or "IndexError" when [0] is taken of an empty list.
get_new_primary(ml, ms, original) ==
    IF original # NoneName /\ ms[original].is_enabled THEN original
    ELSE IF get_enabled(ml, ms) = <<>> THEN "IndexError"
    ELSE get_enabled(ml, ms)[1]

\* What Monitor.get_new_metamodes raises: None has no split, and a string
\* without '+' splits into one field, so index 1 is out of range.
get_new_metamodes_raises(m) ==
    IF m.metamodes = NoneStr THEN "AttributeError"
    ELSE IF Len(m.metamodes) < 2 THEN "IndexError"
    ELSE "no"

\* Monitor.get_new_metamodes / get_new_nvidia_settings: the second
\* '+'-separated field becomes str(xpos).
get_new_metamodes(m) == [m.metamodes EXCEPT ![2] = ToString(m.xpos)]

\* '%.2f' % rate, the rate held in mHz and the text in hundredths of a Hz.
FormatRate(rate) == (rate + 5) \div 10

NoCommand ==
    [program |-> "none", options |-> <<>>, CurrentMetaMode |-> <<>>,
     XineramaInfoOrder |-> <<>>]

OffClause(name) ==
    [output |-> name, off |-> TRUE, mode |-> <<>>, rate |-> NoneInt,
     pos |-> <<>>, primary |-> FALSE]

\* The clause of one monitor in create_xrandr_command.
xrandr_options(scr, m, primary) ==
    IF m.is_enabled
    THEN [output |-> m.name, off |-> FALSE, mode |-> <<m.width, m.height>>,
          rate |-> IF scr = XTOGGLE THEN FormatRate(m.rate) ELSE NoneInt,
          pos |-> <<m.xpos, m.ypos>>, primary |-> (m.name = primary)]
    ELSE OffClause(m.name)

\* A synthesizer that drops the clauses of the disabled monitors.
create_xrandr_command_enabled_only(scr, ml, ms, primary) ==
    [NoCommand EXCEPT
        !.program = "xrandr",
        !.options = [i \in 1..Len(get_enabled(ml, ms)) |->
                        xrandr_options(scr, ms[get_enabled(ml, ms)[i]], primary)]]

create_xrandr_command(scr, ml, ms, primary) ==
    [NoCommand EXCEPT
        !.program = "xrandr",
        !.options = [i \in 1..Len(ml) |-> xrandr_options(scr, ms[ml[i]], primary)]]

\* str.strip(', ') of the joined descriptors reaches the blank a descriptor
\* may start with; only the first descriptor of the string can lose it.
StripLead(fields) == [fields EXCEPT ![1].lead = FALSE]

\* The first exception the loop over the enabled monitors raises, or "no".
create_nvidia_command_raises(ml, ms) ==
    LET en == get_enabled(ml, ms)
        bad == {i \in 1..Len(en) : get_new_metamodes_raises(ms[en[i]]) # "no"}
    IN  IF bad = {} THEN "no"
        ELSE get_new_metamodes_raises(ms[en[CHOOSE i \in bad : \A j \in bad : i <= j]])

create_nvidia_command(scr, ml, ms, primary) ==
    LET en == get_enabled(ml, ms)
        all_metamodes == [i \in 1..Len(en) |-> get_new_metamodes(ms[en[i]])]
    IN  [NoCommand EXCEPT
            !.program = "nvidia-settings",
            !.CurrentMetaMode =
                IF scr = XTOGGLE \/ all_metamodes = <<>> THEN all_metamodes
                ELSE [all_metamodes EXCEPT ![1] = StripLead(all_metamodes[1])],
            !.XineramaInfoOrder = IF scr = XTOGGLE THEN <<primary>> ELSE <<>>]

\* ------------------------------------------------------------------ state

VARIABLES
    script,           \* which of the two scripts runs
    pc,               \* the place of the run in the script
    outcome,          \* "running", "ok", or what ended the run
    args,             \* the parsed arguments
    monitors,         \* the dict name -> Monitor
    names,            \* the keys of the dict, in insertion order
    monitor,          \* the module-level loop variable `monitor` (its name)
    found_monitors,   \* the set of the metamodes loop
    count,            \* items the running loop has read
    original_primary, \* name of the stored primary, or NoneName
    sorted_monitors,  \* the dict's values sorted by xpos (names)
    target,           \* name of the target monitor, or NoneName
    new_primary,      \* name of the chosen primary
    command,          \* the synthesized command
    printed,          \* whether the command was printed
    applied,          \* how many times a command was executed
    prev_monitors,    \* SpecOps: the objects before the last operation
    repeated,         \* SpecOps: the last operation repeats the one before it
    configured_primary \* the connected monitors whose last primary tag said yes

vars ==
    <<script, pc, outcome, args, monitors, names, monitor, found_monitors,
      count, original_primary, sorted_monitors, target, new_primary, command,
      printed, applied, prev_monitors, repeated, configured_primary>>

\* The variables a raised exception or sys.exit leaves as they are.
registry == <<monitors, names, monitor, found_monitors, original_primary,
              sorted_monitors>>
synthesis == <<target, new_primary, command, printed, applied>>
operations == <<prev_monitors, repeated>>
history == <<prev_monitors, repeated, configured_primary>>

Unbound == "unbound"
EmptyDict == [n \in {} |-> Monitor(n, FALSE)]

Exit(o) == pc' = "done" /\ outcome' = o

Init ==
    /\ script \in {XTOGGLE, NVIDIA_TOGGLE}
    /\ pc = "xrandr"
    /\ outcome = "running"
    /\ args \in {[nvidia |-> nv, action |-> "unread", target |-> NoneInt,
                  norun |-> FALSE, verbose |-> FALSE] : nv \in BOOLEAN}
    /\ monitors = EmptyDict
    /\ names = <<>>
    /\ monitor = Unbound
    /\ found_monitors = {}
    /\ count = 0
    /\ original_primary = NoneName
    /\ sorted_monitors = <<>>
    /\ target = NoneName
    /\ new_primary = NoneName
    /\ command = NoCommand
    /\ printed = FALSE
    /\ applied = 0
    /\ prev_monitors = EmptyDict
    /\ repeated = FALSE
    /\ configured_primary = {}

\* ------------------------------------------------------------------ registry

\* One line of `xrandr -q` (the body of the loop at xtoggle.py 131-140): a
\* line that names a connected output makes a Monitor and stores it under its
\* name; any other line leaves a Monitor without a name in `monitor`.  The
\* first line is the "Screen" line, and outputs are listed once, in the
\* order of AllNames.
XrandrLine ==
    /\ pc = "xrandr"
    /\ count < MaxLines + 1
    /\ \E connected \in BOOLEAN, name \in Names, is_enabled \in BOOLEAN :
          IF connected
          THEN /\ count > 0
               /\ \A k \in DOMAIN monitors : NameIndex(k) < NameIndex(name)
               /\ monitor' = name
               /\ monitors' = [k \in DOMAIN monitors \cup {name} |->
                                 IF k = name THEN Monitor(name, is_enabled)
                                 ELSE monitors[k]]
               /\ names' = Append(names, name)
          ELSE /\ name = AllNames[1] /\ is_enabled = FALSE
               /\ monitor' = NoneName
               /\ UNCHANGED <<monitors, names>>
    /\ count' = count + 1
    /\ UNCHANGED <<script, pc, outcome, args, found_monitors, original_primary,
                   sorted_monitors, synthesis, history>>

\* The end of the output: on to the metamodes under --nvidia, else to
\* monitors.xml.
XrandrEnd ==
    /\ pc = "xrandr"
    /\ count > 0
    /\ pc' = IF args.nvidia THEN "metamodes" ELSE "xml"
    /\ count' = 0
    /\ UNCHANGED <<script, outcome, args, registry, synthesis, history>>

\* The text of one metamodes entry, as its '+'-separated fields: the entries
\* after the first follow ", " and so start with a blank.
Metamodes(name, shape, index) ==
    IF shape = "offset"
    THEN <<[lead |-> index > 1, name |-> name, mode |-> "1920x1080_60 "],
           "5120", "0 {ForceCompositionPipeline=On}">>
    ELSE <<[lead |-> index > 1, name |-> name, mode |-> "nvidia-auto-select"]>>

\* open(XORG_CONF): an IOError ends the run ("does not exist or could not be
\* read").
MetamodesOpen ==
    /\ pc = "metamodes"
    /\ \E readable \in BOOLEAN :
          IF readable
          THEN pc' = "metamodes_entry" /\ UNCHANGED outcome
          ELSE Exit("ConfigError")
    /\ found_monitors' = {}
    /\ UNCHANGED <<script, args, monitors, names, monitor, count,
                   original_primary, sorted_monitors, synthesis, history>>

\* The duplicate check as the scripts make it: the set is asked for `name`.
is_duplicate(name, found) == name \in found

\* One entry of the metamodes option (xtoggle.py 154-168, nvidia_toggle.py
\* 119-133).  The entry is stored, then the set is asked for its name, then
\* the set grows by monitor.name: `monitor` is what the xrandr loop left.
\* The sys.exit of the duplicate branch is called with a second argument
\* whose % formatting gets two values for one %s: a TypeError.
MetamodesEntry ==
    /\ pc = "metamodes_entry"
    /\ count < MaxEntries
    /\ \E name \in Names, shape \in MetaShapes :
          LET text == Metamodes(name, shape, count + 1)
              stored == IF script = XTOGGLE THEN StripLead(text) ELSE text
          IN  IF name \notin DOMAIN monitors
              THEN /\ Exit("ConfigError")
                   /\ UNCHANGED <<monitors, found_monitors, count>>
              ELSE /\ monitors' = [monitors EXCEPT ![name].metamodes = stored]
                   /\ IF is_duplicate(name, found_monitors)
                      THEN /\ Exit("TypeError")
                           /\ UNCHANGED <<found_monitors, count>>
                      ELSE /\ found_monitors' = found_monitors \cup {monitor}
                           /\ count' = count + 1
                           /\ UNCHANGED <<pc, outcome>>
    /\ UNCHANGED <<script, args, names, monitor, original_primary,
                   sorted_monitors, synthesis, history>>

\* After the last entry: no connected monitor at all ends the run.  The set
\* and the counter of the loop are not read again.
MetamodesEnd ==
    /\ pc = "metamodes_entry"
    /\ IF DOMAIN monitors = {}
       THEN Exit("ConfigError")
       ELSE pc' = "xml" /\ UNCHANGED outcome
    /\ count' = 0
    /\ found_monitors' = {}
    /\ UNCHANGED <<script, args, monitors, names, monitor, original_primary,
                   sorted_monitors, synthesis, history>>

\* ET.parse(MONITORS_XML): xtoggle.py catches the IOError, nvidia_toggle.py
\* does not.
XmlParse ==
    /\ pc = "xml"
    /\ \E readable \in BOOLEAN :
          IF readable
          THEN pc' = "xml_tag" /\ UNCHANGED outcome
          ELSE Exit(IF script = XTOGGLE THEN "ConfigError" ELSE "FileNotFoundError")
    /\ original_primary' = NoneName
    /\ UNCHANGED <<script, args, monitors, names, monitor, found_monitors,
                   count, sorted_monitors, synthesis, history>>

\* What a logicalmonitor tag does to the stored primary (xtoggle.py 200-204):
\* without a primary tag nothing; with one, this monitor on 'yes', else None.
primary_status(primary, name, original) ==
    IF primary = "absent" THEN original
    ELSE IF primary = "yes" THEN name
    ELSE NoneName

\* One logicalmonitor tag (xtoggle.py 180-215, nvidia_toggle.py 142-176):
\* skipped when its connector is not connected; else dimensions (and rate),
\* primary status and position, each missing or non-numeric tag ending the
\* run.
XmlTag ==
    /\ pc = "xml_tag"
    /\ count < MaxTags
    /\ \E name \in Names, dims \in {"ok", "missing", "bad"},
          primary \in {"yes", "no", "absent"},
          xy \in {"ok", "missing", "bad"}, position \in Positions :
          IF name \notin DOMAIN monitors
          THEN /\ dims = "ok" /\ xy = "ok" /\ primary = "absent"
               /\ position.x = 0
               /\ count' = count + 1
               /\ UNCHANGED <<pc, outcome, monitors, monitor, original_primary,
                              configured_primary>>
          ELSE /\ monitor' = name
               /\ IF dims # "ok"
                  THEN /\ primary = "absent" /\ xy = "ok" /\ position.x = 0
                       /\ Exit("ConfigError")
                       /\ UNCHANGED <<monitors, original_primary, count,
                                      configured_primary>>
                  ELSE /\ original_primary' =
                             primary_status(primary, name, original_primary)
                       /\ configured_primary' =
                             IF primary = "yes"
                             THEN configured_primary \cup {name}
                             ELSE IF primary = "no"
                             THEN configured_primary \ {name}
                             ELSE configured_primary
                       /\ IF xy # "ok"
                          THEN /\ position.x = 0
                               /\ Exit("ConfigError")
                               /\ monitors' = [monitors EXCEPT
                                    ![name].width = ModeOf(name).width,
                                    ![name].height = ModeOf(name).height,
                                    ![name].rate = IF script = XTOGGLE
                                                   THEN ModeOf(name).rate
                                                   ELSE NoneInt]
                               /\ UNCHANGED count
                          ELSE /\ monitors' = [monitors EXCEPT
                                    ![name].width = ModeOf(name).width,
                                    ![name].height = ModeOf(name).height,
                                    ![name].rate = IF script = XTOGGLE
                                                   THEN ModeOf(name).rate
                                                   ELSE NoneInt,
                                    ![name].xpos = position.x,
                                    ![name].ypos = position.y]
                               /\ count' = count + 1
                               /\ UNCHANGED <<pc, outcome>>
    /\ UNCHANGED <<script, args, names, found_monitors, sorted_monitors,
                   synthesis, operations>>

XmlEnd ==
    /\ pc = "xml_tag"
    /\ pc' = "check"
    /\ count' = 0
    /\ UNCHANGED <<script, outcome, args, registry, synthesis, history>>

\* Whether None is among the attributes the script requires of a monitor.
info_missing(scr, m) ==
    \/ m.width = NoneInt
    \/ m.height = NoneInt
    \/ scr = XTOGGLE /\ m.rate = NoneInt
    \/ m.xpos = NoneInt

\* xtoggle.py 218-226: every monitor has its information, else the run
\* ends; no stored primary is only a warning.  nvidia_toggle.py 179-184: no
\* stored primary ends the run, and it is checked first.  The loop rebinds
\* `monitor`.
CheckInfo ==
    /\ pc = "check"
    /\ LET missing == {i \in 1..Len(names) : info_missing(script, monitors[names[i]])}
           first == CHOOSE i \in missing : \A j \in missing : i <= j
       IN  IF script = NVIDIA_TOGGLE /\ original_primary = NoneName
           THEN Exit("ConfigError") /\ UNCHANGED monitor
           ELSE IF missing # {}
           THEN Exit("ConfigError") /\ monitor' = names[first]
           ELSE /\ pc' = "sort"
                /\ monitor' = IF names = <<>> THEN monitor ELSE names[Len(names)]
                /\ UNCHANGED outcome
    /\ UNCHANGED <<script, args, monitors, names, found_monitors, count,
                   original_primary, sorted_monitors, synthesis, history>>

\* sorted(): the position of names[i] in the stable ascending order by xpos.
SortedIndex(ns, ms, i) ==
    Cardinality({j \in 1..Len(ns) :
        \/ ms[ns[j]].xpos < ms[ns[i]].xpos
        \/ ms[ns[j]].xpos = ms[ns[i]].xpos /\ j <= i})

sorted_by_xpos(ns, ms) ==
    [k \in 1..Len(ns) |-> ns[CHOOSE i \in 1..Len(ns) : SortedIndex(ns, ms, i) = k]]

\* xtoggle.py 229-231: sort by xpos, then rank = index + 1.  The registry is
\* built; the record of the primary tags is not read again.
SortRank ==
    /\ pc = "sort"
    /\ LET sm == sorted_by_xpos(names, monitors)
       IN  /\ sorted_monitors' = sm
           /\ monitors' = [n \in DOMAIN monitors |->
                 [monitors[n] EXCEPT !.rank = CHOOSE i \in 1..Len(sm) : sm[i] = n]]
           /\ monitor' = IF sm = <<>> THEN monitor ELSE sm[Len(sm)]
    /\ pc' = "target"
    /\ configured_primary' = {}
    /\ UNCHANGED <<script, outcome, args, names, found_monitors, count,
                   original_primary, synthesis, operations>>

\* ------------------------------------------------------------------ action

\* The subcommands of each script; "none" is a run without one.
Actions(scr) ==
    {"none", "toggle", "enable", "disable", "toggle-only", "enable-only"}
        \cup (IF scr = XTOGGLE THEN {"enable-all"} ELSE {})
WithTarget == {"toggle", "enable", "disable", "toggle-only", "enable-only"}
Targets == (0 - 1)..(MaxMonitors + 1)

\* A range check that is off by one at the upper end.
target_acceptable_strict(t, ml) == 0 < t /\ t < Len(ml)

\* The range check of the target: 0 < args.target <= len(sorted_monitors).
target_acceptable(t, ml) == 0 < t /\ t <= Len(ml)

\* xtoggle.py 334-342: the arguments name an action and, for the actions
\* that take one, a target; a target out of range ends the run, and without
\* args.target (AttributeError) the target is None.  xtoggle.py makes the
\* action optional only when the status flag is the only argument.
CheckTarget ==
    /\ pc = "target"
    /\ \E action \in Actions(script), t \in Targets :
          /\ action = "none" /\ script = XTOGGLE => ~args.nvidia
          /\ action \notin WithTarget => t = 0
          /\ args' = [args EXCEPT !.action = action,
                        !.target = IF action \in WithTarget THEN t ELSE NoneInt]
          /\ IF action \in WithTarget
             THEN IF target_acceptable(t, sorted_monitors)
                  THEN /\ target' = sorted_monitors[t]
                       /\ pc' = "action" /\ UNCHANGED outcome
                  ELSE /\ Exit("ArgumentError")
                       /\ UNCHANGED target
             ELSE /\ target' = NoneName
                  /\ pc' = "action" /\ UNCHANGED outcome
    /\ UNCHANGED <<script, registry, count, new_primary, command, printed,
                   applied, history>>

\* A run that synthesizes a command whether or not an action was given.
action_given_always(scr, action, tgt) == TRUE

\* The condition of the synthesis: `args.action is not None` in xtoggle.py
\* (361), `target is not None` in nvidia_toggle.py (303).
action_given(scr, action, tgt) ==
    IF scr = XTOGGLE THEN action # "none" ELSE tgt # NoneName

\* xtoggle.py 345-361, nvidia_toggle.py 286-303: the action on the flags,
\* and whether the run goes on to synthesize a command.
ApplyAction ==
    /\ pc = "action"
    /\ monitors' = apply_action(script, args.action, sorted_monitors, monitors, target)
    /\ pc' = IF action_given(script, args.action, target) THEN "recalc" ELSE "status"
    /\ UNCHANGED <<script, outcome, args, names, monitor, found_monitors, count,
                   original_primary, sorted_monitors, synthesis, history>>

\* recalculate_positions(sorted_monitors); its loop variable is local.
Recalculate ==
    /\ pc = "recalc"
    /\ monitors' = recalculate_positions(sorted_monitors, monitors)
    /\ pc' = IF script = XTOGGLE THEN "primary" ELSE "apply_changes"
    /\ UNCHANGED <<script, outcome, args, names, monitor, found_monitors, count,
                   original_primary, sorted_monitors, synthesis, history>>

\* ------------------------------------------------------------------ synthesis

\* xtoggle.py 364: new_primary = get_new_primary(...); the IndexError of an
\* empty enabled list is not caught.
GetNewPrimary ==
    /\ pc = "primary"
    /\ LET p == get_new_primary(sorted_monitors, monitors, original_primary)
       IN  IF p = "IndexError"
           THEN Exit("IndexError") /\ UNCHANGED new_primary
           ELSE new_primary' = p /\ pc' = "command" /\ UNCHANGED outcome
    /\ UNCHANGED <<script, args, registry, count, target, command, printed,
                   applied, history>>

\* The manager the run uses.
manager == IF args.nvidia THEN NVIDIA ELSE XRANDR

\* create_command of xtoggle.py (286-300): no enabled monitor ends the run;
\* else the command of the manager, or the exception its synthesis raises.
CreateCommand ==
    /\ pc = "command"
    /\ IF get_enabled(sorted_monitors, monitors) = <<>>
       THEN Exit("ValidationError") /\ UNCHANGED command
       ELSE IF manager = XRANDR
       THEN /\ command' = create_xrandr_command(script, sorted_monitors, monitors,
                                                new_primary)
            /\ pc' = "print" /\ UNCHANGED outcome
       ELSE IF create_nvidia_command_raises(sorted_monitors, monitors) # "no"
       THEN /\ Exit(create_nvidia_command_raises(sorted_monitors, monitors))
            /\ UNCHANGED command
       ELSE /\ command' = create_nvidia_command(script, sorted_monitors, monitors,
                                                new_primary)
            /\ pc' = "print" /\ UNCHANGED outcome
    /\ UNCHANGED <<script, args, registry, count, target, new_primary, printed,
                   applied, history>>

\* xtoggle.py 366-368: print under --norun or --verbose; run unless --norun.
PrintCommand ==
    /\ pc = "print"
    /\ \E norun \in BOOLEAN, verbose \in BOOLEAN :
          /\ args' = [args EXCEPT !.norun = norun, !.verbose = verbose]
          /\ printed' = (norun \/ verbose)
          /\ pc' = IF norun THEN "status" ELSE "apply"
    /\ UNCHANGED <<script, outcome, registry, count, target, new_primary,
                   command, applied, history>>

\* apply_changes of xtoggle.py (303-313): the command runs once; a non-zero
\* exit status ends the run.
ApplyChanges ==
    /\ pc = "apply"
    /\ applied' = applied + 1
    /\ \E succeeded \in BOOLEAN :
          IF succeeded
          THEN pc' = "status" /\ UNCHANGED outcome
          ELSE Exit("ExecutionError")
    /\ UNCHANGED <<script, args, registry, count, target, new_primary, command,
                   printed, history>>

\* apply_changes of nvidia_toggle.py (236-254): no enabled monitor ends the
\* run; else the command is synthesized (the primary inside
\* create_xrandr_command), run whatever its exit status, and printed under
\* --verbose.
ApplyChangesOld ==
    /\ pc = "apply_changes"
    /\ IF get_enabled(sorted_monitors, monitors) = <<>>
       THEN /\ Exit("ValidationError")
            /\ UNCHANGED <<args, new_primary, command, printed, applied>>
       ELSE IF manager = XRANDR
       THEN \E verbose \in BOOLEAN :
            LET p == get_new_primary(sorted_monitors, monitors, original_primary)
            IN  /\ new_primary' = p
                /\ command' = create_xrandr_command(script, sorted_monitors,
                                                    monitors, p)
                /\ applied' = applied + 1
                /\ args' = [args EXCEPT !.verbose = verbose]
                /\ printed' = verbose
                /\ pc' = "status" /\ UNCHANGED outcome
       ELSE IF create_nvidia_command_raises(sorted_monitors, monitors) # "no"
       THEN /\ Exit(create_nvidia_command_raises(sorted_monitors, monitors))
            /\ UNCHANGED <<args, new_primary, command, printed, applied>>
       ELSE \E verbose \in BOOLEAN :
                /\ command' = create_nvidia_command(script, sorted_monitors,
                                                    monitors, new_primary)
                /\ applied' = applied + 1
                /\ args' = [args EXCEPT !.verbose = verbose]
                /\ printed' = verbose
                /\ pc' = "status" /\ UNCHANGED <<outcome, new_primary>>
    /\ UNCHANGED <<script, registry, count, target, history>>

\* The end of the script: print_monitors under --status reads the objects
\* and changes nothing.
Status ==
    /\ pc = "status"
    /\ pc' = "done"
    /\ outcome' = "ok"
    /\ UNCHANGED <<script, args, registry, count, synthesis, history>>

Next ==
    \/ XrandrLine \/ XrandrEnd
    \/ MetamodesOpen \/ MetamodesEntry \/ MetamodesEnd
    \/ XmlParse \/ XmlTag \/ XmlEnd
    \/ CheckInfo \/ SortRank
    \/ CheckTarget \/ ApplyAction \/ Recalculate
    \/ GetNewPrimary \/ CreateCommand \/ PrintCommand \/ ApplyChanges
    \/ ApplyChangesOld
    \/ Status

Spec == Init /\ [][Next]_vars

\* ------------------------------------------------------------------ operations
\* The action applier and the layout recalculator applied again and again to
\* one registry: what a registry build can leave (a list sorted by xpos,
\* ranks 1..N, any widths and flags), then up to MaxOps operations, each the
\* action on a valid target followed by recalculate_positions as in the
\* scripts (xtoggle.py 345-362).

OpsModes == {ModeOf(AllNames[1]), ModeOf(AllNames[2])}

InitOps ==
    /\ script \in {XTOGGLE, NVIDIA_TOGGLE}
    /\ pc = "ops"
    /\ outcome = "running"
    /\ args = [nvidia |-> FALSE, action |-> "unread", target |-> NoneInt,
               norun |-> FALSE, verbose |-> FALSE]
    /\ \E n \in 1..OpsMonitors :
          /\ names = [i \in 1..n |-> AllNames[i]]
          /\ sorted_monitors = names
          /\ \E mode \in [1..n -> OpsModes], position \in [1..n -> Positions],
                is_enabled \in [1..n -> BOOLEAN] :
                /\ \A i \in 1..n, j \in 1..n : i < j => position[i].x <= position[j].x
                /\ monitors = [name \in Range(names) |->
                      LET i == NameIndex(name)
                      IN  [Monitor(name, is_enabled[i]) EXCEPT
                              !.width = mode[i].width, !.height = mode[i].height,
                              !.rate = IF script = XTOGGLE THEN mode[i].rate ELSE NoneInt,
                              !.xpos = position[i].x, !.ypos = position[i].y,
                              !.rank = i]]
          /\ monitor = names[n]
    /\ found_monitors = {}
    /\ count = 0
    /\ original_primary = NoneName
    /\ target = NoneName
    /\ new_primary = NoneName
    /\ command = NoCommand
    /\ printed = FALSE
    /\ applied = 0
    /\ prev_monitors = monitors
    /\ repeated = FALSE
    /\ configured_primary = {}

Operate ==
    /\ pc = "ops"
    /\ count < MaxOps
    /\ \E action \in Actions(script) \ {"none"}, t \in 1..Len(sorted_monitors) :
          /\ action \notin WithTarget => t = 1
          /\ args' = [args EXCEPT !.action = action,
                        !.target = IF action \in WithTarget THEN t ELSE NoneInt]
          /\ target' = IF action \in WithTarget THEN sorted_monitors[t] ELSE NoneName
          /\ monitors' = recalculate_positions(sorted_monitors,
                            apply_action(script, action, sorted_monitors, monitors,
                                         sorted_monitors[t]))
    /\ prev_monitors' = monitors
    /\ repeated' = (count > 0 /\ args' = args)
    /\ count' = count + 1
    /\ UNCHANGED <<script, pc, outcome, names, monitor, found_monitors,
                   original_primary, sorted_monitors, new_primary, command,
                   printed, applied, configured_primary>>

NextOps == Operate

SpecOps == InitOps /\ [][NextOps]_vars

\* ------------------------------------------------------------------ properties

Enabled(ms) == {n \in DOMAIN ms : ms[n].is_enabled}

RECURSIVE SumWidths(_, _)
SumWidths(S, ms) ==
    IF S = {} THEN 0
    ELSE LET n == CHOOSE n \in S : TRUE
         IN  ms[n].width + SumWidths(S \ {n}, ms)

\* m is the enabled monitor that follows the enabled monitor n in rank.
NextEnabled(n, m, ms) ==
    /\ ms[n].rank < ms[m].rank
    /\ ~\E k \in Enabled(ms) : ms[n].rank < ms[k].rank /\ ms[k].rank < ms[m].rank

\* The widths of the list, by rank.
WidthsAre(ml, ms, ws) ==
    Len(ml) = Len(ws) /\ \A i \in 1..Len(ml) : ms[ml[i]].width = ws[i]

\* C1: after recalculate_positions the enabled monitors stand in rank order,
\* the first at xpos 0, each next one at the previous one's xpos + width, so
\* that no two intervals [xpos, xpos + width) overlap and the enabled widths
\* add up to the greatest xpos + width; widths 1920, 1280, 1920, all enabled,
\* give 0, 1920, 3200.
C1_EnabledArePacked ==
    (pc = "ops" /\ count > 0) =>
        LET E == Enabled(monitors)
        IN  /\ \A n \in E : (\A m \in E : monitors[n].rank <= monitors[m].rank)
                                => monitors[n].xpos = 0
            /\ \A n \in E, m \in E :
                  NextEnabled(n, m, monitors)
                      => monitors[m].xpos = monitors[n].xpos + monitors[n].width
            /\ \A n \in E, m \in E :
                  monitors[n].rank < monitors[m].rank
                      => monitors[n].xpos + monitors[n].width <= monitors[m].xpos
            /\ \A n \in E :
                  monitors[n].xpos + monitors[n].width <= SumWidths(E, monitors)
            /\ E # {} => \E n \in E :
                  monitors[n].xpos + monitors[n].width = SumWidths(E, monitors)
            /\ (/\ WidthsAre(sorted_monitors, monitors, <<1920, 1280, 1920>>)
                /\ E = DOMAIN monitors)
                  => /\ monitors[sorted_monitors[1]].xpos = 0
                     /\ monitors[sorted_monitors[2]].xpos = 1920
                     /\ monitors[sorted_monitors[3]].xpos = 3200

\* C1's case: three monitors of widths 1920, 1280, 1920, all enabled, packed
\* by an operation from other positions.
C1_Witness ==
    /\ pc = "ops" /\ count > 0
    /\ WidthsAre(sorted_monitors, monitors, <<1920, 1280, 1920>>)
    /\ Enabled(monitors) = DOMAIN monitors
    /\ monitors[sorted_monitors[3]].xpos = 3200
    /\ prev_monitors[sorted_monitors[3]].xpos # 3200

\* The target was the only enabled monitor before the last operation.
WasSoleEnabled == Enabled(prev_monitors) = {target}

\* C2: toggle-only enables every monitor when the target was the only
\* enabled one, and in every other state leaves the target enabled and every
\* other monitor disabled.
C2_ToggleOnly ==
    (pc = "ops" /\ count > 0 /\ args.action = "toggle-only") =>
        IF WasSoleEnabled
        THEN Enabled(monitors) = DOMAIN monitors
        ELSE Enabled(monitors) = {target}

\* C2's case: a restore of several monitors.
C2_Witness ==
    /\ pc = "ops" /\ count > 0 /\ args.action = "toggle-only"
    /\ WasSoleEnabled
    /\ Len(sorted_monitors) > 1
    /\ Enabled(monitors) = DOMAIN monitors

\* C6: enable-only with the same target a second time changes nothing: every
\* flag and every xpos is as the first application left it.
C6_EnableOnlyIdempotent ==
    (pc = "ops" /\ repeated /\ args.action = "enable-only") =>
        monitors = prev_monitors

\* C6's case: a second enable-only on a registry of several monitors.
C6_Witness ==
    /\ pc = "ops" /\ repeated /\ args.action = "enable-only"
    /\ Len(sorted_monitors) > 1
    /\ Enabled(monitors) = {target}
    /\ monitors[target].xpos = 0

\* C7: a second toggle of the same target returns the target's flag to what
\* it was before the first, and no other monitor's flag changes on the way.
C7_ToggleTwice ==
    [][(/\ pc = "ops" /\ count > 0
        /\ args.action = "toggle" /\ args' = args /\ count' = count + 1)
          => \A n \in DOMAIN monitors :
                /\ monitors'[n].is_enabled = prev_monitors[n].is_enabled
                /\ n # target => monitors[n].is_enabled = prev_monitors[n].is_enabled
      ]_vars

\* C7's case: the second toggle has acted and has changed the flag back.
C7_Witness ==
    /\ pc = "ops" /\ repeated /\ args.action = "toggle"
    /\ monitors[target].is_enabled # prev_monitors[target].is_enabled

\* An action was given and applied: the run got past the range check of the
\* target with an action.
ActionApplied ==
    /\ pc \notin {"xrandr", "metamodes", "metamodes_entry", "xml", "xml_tag",
                  "check", "sort", "target", "action", "ops"}
    /\ args.action \notin {"unread", "none"}
    /\ outcome # "ArgumentError"

\* C3: with no monitor of the registry enabled after the action, the run
\* ends with the "At least one enabled monitor is required!" exit, without
\* a command and without an execution.
C3_NoneEnabledIsValidationError ==
    (/\ pc = "done" /\ ActionApplied
     /\ sorted_monitors # <<>> /\ Enabled(monitors) = {}) =>
        /\ outcome = "ValidationError"
        /\ command = NoCommand
        /\ applied = 0

\* The enabled monitor of the lowest rank.
FirstEnabled(ms) ==
    CHOOSE n \in Enabled(ms) : \A m \in Enabled(ms) : ms[n].rank <= ms[m].rank

\* The clauses of the command that carry --primary.
PrimaryClauses == {i \in 1..Len(command.options) : command.options[i].primary}

\* C4: a synthesized xrandr command has exactly one clause with --primary;
\* its monitor is enabled, and is the stored primary when that one is
\* enabled, else the first enabled monitor in rank order.
C4_OnePrimary ==
    command.program = "xrandr" =>
        /\ Cardinality(PrimaryClauses) = 1
        /\ \A i \in PrimaryClauses :
              /\ ~command.options[i].off
              /\ command.options[i].output \in Enabled(monitors)
              /\ command.options[i].output =
                    IF original_primary \in Enabled(monitors)
                    THEN original_primary
                    ELSE FirstEnabled(monitors)

\* C4's case: the stored primary is off and the first enabled monitor
\* carries --primary in its place.
C4_Witness ==
    /\ command.program = "xrandr"
    /\ original_primary # NoneName
    /\ original_primary \notin Enabled(monitors)
    /\ \E i \in PrimaryClauses : command.options[i].output = FirstEnabled(monitors)

\* C5: a target outside [1, N] ends the run with the argument error, with
\* every monitor as the registry build left it and no command; a target
\* inside selects the monitor of that rank.
C5_TargetRange ==
    [][(pc = "target" /\ args'.action \in WithTarget) =>
          IF 1 <= args'.target /\ args'.target <= Len(sorted_monitors)
          THEN /\ outcome' = "running" /\ pc' = "action"
               /\ monitors[target'].rank = args'.target
               /\ monitors' = monitors
          ELSE /\ outcome' = "ArgumentError" /\ pc' = "done"
               /\ monitors' = monitors
               /\ command' = NoCommand /\ command = NoCommand
               /\ applied' = 0
      ]_vars

\* C5's case: a negative target given to a registry that has monitors.
C5_Witness ==
    /\ pc = "done" /\ outcome = "ArgumentError"
    /\ args.action \in WithTarget /\ args.target < 0
    /\ Len(sorted_monitors) > 0
    /\ command = NoCommand

\* The xpos the layout gives an enabled monitor: the widths of the enabled
\* monitors of lower rank.
PackedX(n, ms) ==
    SumWidths({m \in Enabled(ms) : ms[m].rank < ms[n].rank}, ms)

\* C8: the xrandr command has one clause per monitor, in rank order: mode
\* and recalculated position for an enabled monitor, --off alone for a
\* disabled one.  For A (rank 1) and B (rank 2) with primary A, enable-only
\* with target 2 gives --off for A and position x = 0 with --primary for B.
C8_XrandrClauses ==
    command.program = "xrandr" =>
        /\ Len(command.options) = Cardinality(DOMAIN monitors)
        /\ \A i \in 1..Len(command.options) :
              LET c == command.options[i]
                  m == monitors[c.output]
              IN  /\ c.output \in DOMAIN monitors
                  /\ m.rank = i
                  /\ IF m.is_enabled
                     THEN /\ ~c.off
                          /\ c.mode = <<m.width, m.height>>
                          /\ c.pos = <<PackedX(c.output, monitors), m.ypos>>
                     ELSE /\ c.off
                          /\ c.mode = <<>> /\ c.pos = <<>> /\ ~c.primary
        /\ (/\ sorted_monitors = <<"A", "B">>
            /\ original_primary = "A"
            /\ args.action = "enable-only" /\ args.target = 2)
              => /\ command.options[1] = OffClause("A")
                 /\ command.options[2].output = "B"
                 /\ command.options[2].pos[1] = 0
                 /\ command.options[2].primary

\* C8's case: the scenario of A and B.
C8_Witness ==
    /\ command.program = "xrandr"
    /\ sorted_monitors = <<"A", "B">>
    /\ monitors["A"].width = 1920 /\ monitors["B"].width = 1280
    /\ original_primary = "A"
    /\ args.action = "enable-only" /\ args.target = 2
    /\ command.options[1].off
    /\ command.options[2].pos[1] = 0

\* The enabled monitor that is the i-th in rank order.
NthEnabled(i, ms) ==
    CHOOSE n \in Enabled(ms) :
        Cardinality({m \in Enabled(ms) : ms[m].rank <= ms[n].rank}) = i

\* C9: the nvidia command holds the descriptors of the enabled monitors and
\* of no other, in rank order, each the stored descriptor with its x offset
\* replaced by the recalculated xpos, and an assignment naming the primary,
\* an enabled monitor.
C9_NvidiaCommand ==
    command.program = "nvidia-settings" =>
        /\ Len(command.CurrentMetaMode) = Cardinality(Enabled(monitors))
        /\ \A i \in 1..Len(command.CurrentMetaMode) :
              LET n == NthEnabled(i, monitors)
              IN  command.CurrentMetaMode[i] =
                     [monitors[n].metamodes EXCEPT
                         ![2] = ToString(PackedX(n, monitors))]
        /\ Len(command.XineramaInfoOrder) = 1
        /\ \A i \in 1..Len(command.XineramaInfoOrder) :
              command.XineramaInfoOrder[i] \in Enabled(monitors)

\* C9 for xtoggle.py alone, where it holds.
C9_NvidiaCommandXToggle == script = XTOGGLE => C9_NvidiaCommand

\* C10: an entry of the metamodes option for a monitor that already has its
\* descriptor from an earlier entry ends the run.
C10_DuplicateIsFatal ==
    [][(/\ pc = "metamodes_entry"
        /\ \E n \in DOMAIN monitors :
              /\ monitors[n].metamodes # NoneStr
              /\ monitors'[n].metamodes # monitors[n].metamodes)
          => (pc' = "done" /\ outcome' \notin {"running", "ok"})
      ]_vars

\* C11: once the logicalmonitor tags are read, a connected monitor that the
\* tags configure as primary (its own last primary tag says yes) is the
\* stored primary, wherever its tag stands and whatever the primary tags of
\* the other monitors after it say; no stored primary (the case of the
\* first-enabled fallback) means that no connected monitor is configured as
\* primary.
C11_ConfiguredPrimaryIsStored ==
    pc \in {"check", "sort"} =>
        /\ configured_primary # {} => original_primary \in configured_primary
        /\ original_primary = NoneName => configured_primary = {}

\* The places of a run after the sort: the canonical order and the ranks
\* are assigned.
Ranked == {"target", "action", "recalc", "primary", "command", "print",
           "apply", "apply_changes", "status"}

\* C12: recalculate_positions writes nothing but the xpos of enabled
\* monitors: name, ypos, width, height, rate, rank, is_enabled and the
\* descriptor of every monitor stay, and so does the xpos of every disabled
\* monitor; and from the sort on no step reorders sorted_monitors or changes
\* a rank, which stays the 1-based place in that list.
C12_RecalculationFrame ==
    [][/\ pc = "recalc" =>
             /\ DOMAIN monitors' = DOMAIN monitors
             /\ \A n \in DOMAIN monitors :
                   /\ monitors'[n] = [monitors[n] EXCEPT !.xpos = monitors'[n].xpos]
                   /\ ~monitors[n].is_enabled => monitors'[n].xpos = monitors[n].xpos
       /\ pc \in Ranked =>
             /\ sorted_monitors' = sorted_monitors
             /\ \A i \in 1..Len(sorted_monitors) :
                   /\ monitors[sorted_monitors[i]].rank = i
                   /\ monitors'[sorted_monitors[i]].rank = i
      ]_vars

\* C12's case: after the recalculation the monitor of rank 2 stands at
\* xpos 0, left of the disabled monitor of rank 1 that kept its xpos 1920:
\* the list is no longer in ascending xpos, and the ranks are as assigned.
C12_Witness ==
    /\ pc \in {"primary", "apply_changes"}
    /\ Len(sorted_monitors) = 2
    /\ ~monitors[sorted_monitors[1]].is_enabled
    /\ monitors[sorted_monitors[1]].xpos = 1920
    /\ monitors[sorted_monitors[1]].rank = 1
    /\ monitors[sorted_monitors[2]].is_enabled
    /\ monitors[sorted_monitors[2]].xpos = 0
    /\ monitors[sorted_monitors[2]].rank = 2

\* C13: the command is executed at most once, by the step that follows the
\* action, the recalculation and the synthesis in that order: each of these
\* places is entered from the one before it only, with an action given, the
\* command is synthesized once, after the recalculation, and when it runs
\* the enabled monitors stand packed.  A run without an action changes no
\* monitor and neither synthesizes nor executes a command; under --norun the
\* command is synthesized and printed and never executed.
C13_PipelineOrder ==
    [][/\ applied \in {0, 1} /\ applied' \in {0, 1}
       /\ applied' # applied =>
             /\ applied = 0
             /\ pc \in {"apply", "apply_changes"}
             /\ args.action \notin {"unread", "none"}
             /\ ~args'.norun
             /\ command' # NoCommand
             /\ Enabled(monitors) # {}
             /\ \A n \in Enabled(monitors) :
                   monitors[n].xpos = PackedX(n, monitors)
       /\ pc' = "action" => pc = "target"
       /\ pc' = "recalc" => pc = "action" /\ args.action \notin {"unread", "none"}
       /\ pc' = "primary" => pc = "recalc"
       /\ pc' = "apply_changes" => pc = "recalc"
       /\ pc' = "command" => pc = "primary"
       /\ pc' = "print" => pc = "command" /\ command' # NoCommand
       /\ pc' = "apply" => pc = "print" /\ command # NoCommand
       /\ command' # command =>
             /\ command = NoCommand
             /\ pc \in {"command", "apply_changes"}
       /\ args.action = "none" =>
             /\ monitors' = monitors
             /\ command = NoCommand /\ command' = NoCommand
             /\ applied = 0 /\ applied' = 0
       /\ args.norun =>
             /\ command # NoCommand /\ printed
             /\ applied = 0 /\ applied' = 0
      ]_vars

\* C13's case: a run that toggled a monitor, synthesized the xrandr command
\* and executed it once, to the end.
C13_Witness ==
    /\ pc = "done" /\ outcome = "ok"
    /\ args.action = "toggle"
    /\ command.program = "xrandr"
    /\ applied = 1

====
